---- MODULE Spec2Model ----
(***************************************************************************)
(* Model of libsubmit: the KubernetesProvider job table                    *)
(* (providers/kubernetes/kube.py), alone and under threads; command        *)
(* execution, file and directory transfer and the life cycle of            *)
(* LocalChannel (channels/local/local.py) and SSHChannel                   *)
(* (channels/ssh/ssh.py); the launchers (launchers/launchers.py).          *)
(*                                                                         *)
(* Strings are sequences of tokens, so that format() and split(".") are    *)
(* computed as the code computes them.  Python dicts are functions from    *)
(* keys to values; a raised exception is a value of the field "raised"    *)
(* of the record that describes the last call.                             *)
(***************************************************************************)
EXTENDS Integers, Sequences, FiniteSets, TLC

VARIABLES
    resources,        \* KubernetesProvider.resources: name -> [status, pods]
    deployment_name,  \* KubernetesProvider.deployment_name, Unset before the first submit
    backend,          \* deployments that exist in the Kubernetes namespace
    now,              \* whole seconds of time.time()
    returned,         \* identifiers returned by submit so far, in call order
    cancelled,        \* identifiers of the cancel calls that returned all True
    ncalls,           \* number of provider calls made so far
    ret,              \* the last call: operation, arguments, outcome
    local_envs,       \* LocalChannel.envs
    local__envs,      \* LocalChannel._envs
    ssh_envs,         \* SSHChannel.envs
    ssh_wait_default, \* the dict object that is the default of execute_wait's envs
    ssh_nowait_default, \* the dict object that is the default of execute_no_wait's envs
    lfs,              \* the local file system: resolved path -> node
    rfs,              \* the remote file system
    cwd,              \* the working directory of the calling process
    pushed,           \* the last push_directory call that returned
    nops,             \* number of file operations made so far
    local_chan,       \* the LocalChannel last constructed
    ssh_chan,         \* the SSHChannel last constructed
    procs,            \* the processes started by execute_no_wait
    launcher,         \* the launcher object last constructed
    launches,         \* the calls made on it, with their results
    threads,          \* the calls in progress on the provider, one per thread
    deployment_obj    \* the provider's attribute deployment_obj, by its name

provVars == <<resources, deployment_name, backend, now, returned, cancelled, ncalls>>
chanVars == <<local_envs, local__envs, ssh_envs, ssh_wait_default,
              ssh_nowait_default>>
fileVars == <<lfs, rfs, cwd, pushed, nops>>
lifeVars == <<local_chan, ssh_chan, procs>>
launchVars == <<launcher, launches>>
threadVars == <<threads, deployment_obj>>
restVars == <<launchVars, threadVars>>
extVars == <<fileVars, lifeVars, restVars>>
vars == <<provVars, chanVars, ret, extVars>>

----------------------------------------------------------------------------
(* Bounds *)

MaxTime == 2
MaxCalls == 4
MaxIds == 2

----------------------------------------------------------------------------
(* Values *)

None == <<"None">>
Unset == <<"unset">>
NoCall == [op |-> "none"]

\* init_blocks=4 in KubernetesProvider.__init__
init_blocks == 4

\* job_name arguments of submit: "t1" and the default "parsl.auto"
Labels == {<<"t1">>, <<"parsl", ".", "auto">>}

\* an identifier no submit ever produced
Ghost == <<"ghost">>

Fracs == {"0", "5"}

EmptyDict == [k \in {} |-> 0]

\* str() of a whole number of seconds
Str(n) == <<"0", "1", "2", "3", "4", "5", "6", "7", "8", "9">>[n + 1]

\* "{0}".format(time.time()): seconds, dot, fraction
TimeRepr(sec, frac) == <<Str(sec), ".", frac>>

\* s.split(".")[0]: the tokens before the first "."
RECURSIVE SplitDot0(_)
SplitDot0(s) ==
    IF s = <<>> THEN <<>>
    ELSE IF Head(s) = "." THEN <<>>
    ELSE <<Head(s)>> \o SplitDot0(Tail(s))

\* "{0}-{1}".format(job_name, time.time()).split(".")[0]
FormatJobName(job_name, sec, frac) ==
    SplitDot0(job_name \o <<"-">> \o TimeRepr(sec, frac))

\* '{}-{}-deployment'.format(job_name, str(time.time()).split('.')[0])
FormatDeploymentName(job_name, sec, frac) ==
    job_name \o <<"-">> \o SplitDot0(TimeRepr(sec, frac)) \o <<"-deployment">>

\* d[k] = v on a dict
DictSet(d, k, v) == [x \in DOMAIN d \cup {k} |-> IF x = k THEN v ELSE d[x]]

\* d.pop(k)
DictPop(d, k) == [x \in DOMAIN d \ {k} |-> d[x]]

SeqsUpTo(S, n) == UNION {[1..m -> S] : m \in 0..n}

\* no file system in play: both empty, nothing pushed
NoFiles ==
    /\ lfs = EmptyDict
    /\ rfs = EmptyDict
    /\ cwd = <<>>
    /\ pushed = [op |-> "none"]
    /\ nops = 0

\* no channel constructed, no process started
NoChannels ==
    /\ local_chan = [state |-> "none"]
    /\ ssh_chan = [state |-> "none"]
    /\ procs = <<>>

\* no launcher constructed, no thread started
NoLauncher ==
    /\ launcher = [kind |-> "none"]
    /\ launches = <<>>

NoThreads ==
    /\ threads = <<>>
    /\ deployment_obj = Unset

\* the state outside the provider and the environments, untouched
ExtInit == NoFiles /\ NoChannels /\ NoLauncher /\ NoThreads

----------------------------------------------------------------------------
(* KubernetesProvider *)

\* the provider object: its attributes and the namespace it talks to
Provider == [resources |-> resources, deployment_name |-> deployment_name,
             backend |-> backend]

\* submit() with the guard dropped from the table write: the record is
\* written on every call
submit_rerecord(p, cmd_ok, job_name, t1, f1, t2, f2) ==
    IF p.resources = EmptyDict
    THEN LET jn == FormatJobName(job_name, t1, f1)
             dn == FormatDeploymentName(jn, t2, f2)
         IN  IF cmd_ok
             THEN [p |-> [resources |-> DictSet(p.resources, dn,
                                         [status |-> "RUNNING", pods |-> init_blocks]),
                          deployment_name |-> dn,
                          backend |-> p.backend \cup {dn}],
                   val |-> dn, raised |-> "no"]
             ELSE [p |-> [p EXCEPT !.deployment_name = dn],
                   val |-> None, raised |-> "ApiException"]
    ELSE [p |-> [p EXCEPT !.resources = DictSet(p.resources, p.deployment_name,
                                         [status |-> "RUNNING", pods |-> init_blocks])],
          val |-> p.deployment_name, raised |-> "no"]

\* KubernetesProvider.submit: p is the provider, cmd_ok whether
\* create_namespaced_deployment returns, t1/f1 and t2/f2 the two readings of
\* time.time().  The result is the provider afterwards, the value returned
\* and the exception raised.
submit(p, cmd_ok, job_name, t1, f1, t2, f2) ==
    IF p.resources = EmptyDict
    THEN LET jn == FormatJobName(job_name, t1, f1)
             dn == FormatDeploymentName(jn, t2, f2)
         IN  IF cmd_ok
             THEN [p |-> [resources |-> DictSet(p.resources, dn,
                                         [status |-> "RUNNING", pods |-> init_blocks]),
                          deployment_name |-> dn,
                          backend |-> p.backend \cup {dn}],
                   val |-> dn, raised |-> "no"]
             ELSE [p |-> [p EXCEPT !.deployment_name = dn],
                   val |-> None, raised |-> "ApiException"]
    ELSE [p |-> p, val |-> p.deployment_name, raised |-> "no"]

\* KubernetesProvider._status: the keys of the table, nothing changed
_status(p) == DOMAIN p.resources

\* KubernetesProvider.status
status(p, job_ids) ==
    LET jobs_ids == _status(p)   \* computed and dropped
    IN  [p |-> p, val |-> [i \in 1..Len(job_ids) |-> "RUNNING"], raised |-> "no"]

\* outcomes of delete_namespaced_deployment: the deployment is deleted, the
\* call returns a response that reports failure, or the client raises
DeleteOutcomes == {"deleted", "refused", "raise"}

\* the body of cancel's loop, removing the record instead of marking it
cancel_job_pop(p, job, out) ==
    IF out = "raise" THEN [p |-> p, raised |-> "ApiException"]
    ELSE LET b == IF out = "deleted" THEN p.backend \ {job} ELSE p.backend
         IN  IF job \notin DOMAIN p.resources
             THEN [p |-> [p EXCEPT !.backend = b], raised |-> "KeyError"]
             ELSE [p |-> [p EXCEPT !.backend = b,
                                   !.resources = DictPop(p.resources, job)],
                   raised |-> "no"]

\* the body of cancel's loop, marking the record only when the response
\* reports success
cancel_job_checked(p, job, out) ==
    IF out = "raise" THEN [p |-> p, raised |-> "ApiException"]
    ELSE LET b == IF out = "deleted" THEN p.backend \ {job} ELSE p.backend
         IN  IF job \notin DOMAIN p.resources
             THEN [p |-> [p EXCEPT !.backend = b], raised |-> "KeyError"]
             ELSE [p |-> [p EXCEPT !.backend = b,
                                   !.resources[job].status =
                                       IF out = "deleted" THEN "CANCELLED" ELSE @],
                   raised |-> "no"]

\* the body of cancel's loop for one job: _delete_deployment(job), then
\* self.resources[job]['status'] = 'CANCELLED'
cancel_job(p, job, out) ==
    IF out = "raise" THEN [p |-> p, raised |-> "ApiException"]
    ELSE LET b == IF out = "deleted" THEN p.backend \ {job} ELSE p.backend
         IN  IF job \notin DOMAIN p.resources
             THEN [p |-> [p EXCEPT !.backend = b], raised |-> "KeyError"]
             ELSE [p |-> [p EXCEPT !.backend = b,
                                   !.resources[job].status = "CANCELLED"],
                   raised |-> "no"]

\* cancel's loop from job i on; done counts the jobs whose iteration finished
RECURSIVE cancel_loop(_, _, _, _)
cancel_loop(p, job_ids, outs, i) ==
    IF i > Len(job_ids) THEN [p |-> p, raised |-> "no", done |-> i - 1]
    ELSE LET r == cancel_job(p, job_ids[i], outs[i])
         IN  IF r.raised # "no"
             THEN [p |-> r.p, raised |-> r.raised, done |-> i - 1]
             ELSE cancel_loop(r.p, job_ids, outs, i + 1)

\* KubernetesProvider.cancel
cancel(p, job_ids, outs) ==
    LET r == cancel_loop(p, job_ids, outs, 1)
    IN  [p |-> r.p,
         val |-> IF r.raised = "no" THEN [i \in 1..Len(job_ids) |-> TRUE] ELSE None,
         raised |-> r.raised,
         done |-> r.done]

\* what the namespace can answer to the delete calls of one cancel: it
\* deletes only a deployment that exists (b is the set of those that do)
RECURSIVE BackendAllows(_, _, _, _)
BackendAllows(b, job_ids, outs, i) ==
    IF i > Len(job_ids) THEN TRUE
    ELSE /\ outs[i] = "deleted" => job_ids[i] \in b
         /\ BackendAllows(IF outs[i] = "deleted" THEN b \ {job_ids[i]} ELSE b,
                          job_ids, outs, i + 1)

\* identifiers a caller can pass: every key of the table, the name the
\* provider last formed, and one it never issued
KnownIds == (DOMAIN resources) \cup ({deployment_name} \ {Unset}) \cup {Ghost}

Install(r) ==
    /\ resources' = r.p.resources
    /\ deployment_name' = r.p.deployment_name
    /\ backend' = r.p.backend
    /\ ncalls' = ncalls + 1
    /\ UNCHANGED <<chanVars, extVars>>

Tick ==
    /\ now < MaxTime
    /\ now' = now + 1
    /\ UNCHANGED <<resources, deployment_name, backend, returned, cancelled,
                   ncalls, ret, chanVars, extVars>>

Submit ==
    /\ ncalls < MaxCalls
    /\ \E job_name \in Labels, cmd_ok \in BOOLEAN, f1 \in Fracs, f2 \in Fracs,
          t2 \in {now, now + 1} :
          /\ t2 <= MaxTime
          /\ LET r == submit(Provider, cmd_ok, job_name, now, f1, t2, f2)
             IN  /\ Install(r)
                 /\ now' = IF resources = EmptyDict THEN t2 ELSE now
                 /\ returned' = IF r.raised = "no" /\ r.val # None
                                THEN Append(returned, r.val) ELSE returned
                 /\ ret' = [op |-> "submit", job_name |-> job_name,
                            full |-> resources # EmptyDict,
                            val |-> r.val, raised |-> r.raised]
                 /\ UNCHANGED cancelled

Status ==
    /\ ncalls < MaxCalls
    /\ \E job_ids \in SeqsUpTo(KnownIds, MaxIds) :
          LET r == status(Provider, job_ids)
          IN  /\ Install(r)
              /\ ret' = [op |-> "status", job_ids |-> job_ids,
                         val |-> r.val, raised |-> r.raised]
              /\ UNCHANGED <<now, returned, cancelled>>

Cancel ==
    /\ ncalls < MaxCalls
    /\ \E job_ids \in SeqsUpTo(KnownIds, MaxIds) :
       \E outs \in [1..Len(job_ids) -> DeleteOutcomes] :
          LET r == cancel(Provider, job_ids, outs)
          IN  /\ BackendAllows(backend, job_ids, outs, 1)
              \* the calls that are never made have no outcome to choose
              /\ \A i \in 1..Len(job_ids) : i > r.done + 1 => outs[i] = "raise"
              /\ Install(r)
              /\ ret' = [op |-> "cancel", job_ids |-> job_ids, outs |-> outs,
                         done |-> r.done, val |-> r.val, raised |-> r.raised]
              /\ cancelled' = IF r.raised = "no"
                               THEN cancelled \cup {job_ids[i] : i \in 1..Len(job_ids)}
                               ELSE cancelled
              /\ UNCHANGED <<now, returned>>

----------------------------------------------------------------------------
(* Channels: environments and execute_wait *)

Names == {"A", "B"}
NameOrder == <<"A", "B">>
Values == {"1", "2"}

\* dicts of environment variables a caller can pass
EnvDicts == UNION {[D -> Values] : D \in SUBSET Names}

\* os.environ of the calling process, and the login environment of the
\* remote account
os_environ == [k \in {"A"} |-> "0"]
remote_environ == [k \in {"A"} |-> "0"]

\* d.update(e): the entries of e replace and extend those of d
DictUpdate(d, e) ==
    [k \in DOMAIN d \cup DOMAIN e |-> IF k \in DOMAIN e THEN e[k] ELSE d[k]]

\* LocalChannel.__init__: self._envs = deepcopy(os.environ); self._envs.update(envs)
LocalChannelEnvs(environ, envs) == DictUpdate(environ, envs)

\* ' '.join(['{}={}'.format(key, value) for key, value in env.items()]),
\* from the i-th name on
RECURSIVE JoinEnv(_, _)
JoinEnv(env, i) ==
    IF i > Len(NameOrder) THEN <<>>
    ELSE (IF NameOrder[i] \in DOMAIN env
          THEN <<NameOrder[i], "=", env[NameOrder[i]]>> ELSE <<>>)
         \o JoinEnv(env, i + 1)

\* SSHChannel.prepend_envs: env.update(self.envs) changes the dict object it
\* was given; the result is that object afterwards and the command line
prepend_envs(chan_envs, cmd, env) ==
    LET merged == DictUpdate(env, chan_envs)
    IN  [env |-> merged,
         cmdline |-> IF DOMAIN merged # {}
                     THEN <<"env">> \o JoinEnv(merged, 1) \o cmd
                     ELSE cmd]

\* what env(1) does with NAME=VALUE words: each sets the variable, the
\* first other word starts the command
RECURSIVE EnvWords(_, _)
EnvWords(words, environ) ==
    IF Len(words) >= 3 /\ words[2] = "="
    THEN EnvWords(SubSeq(words, 4, Len(words)),
                  DictUpdate(environ, [k \in {words[1]} |-> words[3]]))
    ELSE [environ |-> environ, cmd |-> words]

\* the remote shell running a command line: the command and its environment
RemoteRun(cmdline, environ) ==
    IF cmdline # <<>> /\ Head(cmdline) = "env"
    THEN EnvWords(Tail(cmdline), environ)
    ELSE [environ |-> environ, cmd |-> cmdline]

Commands == {<<"echo", "hello">>}

\* how a command ends: it exits with a code; it cannot be started (Popen
\* raises, the SSH transport fails); it is still running when walltime is
\* over; or it exits having written bytes that are not UTF-8
Outcomes == [kind : {"exit"}, code : {0, 1}]
            \cup [kind : {"launch_fail", "timeout", "undecodable"}, code : {0}]

\* whether reading the streams of a command that outlived walltime raises
\* socket.timeout (TRUE) or returns once the command has exited (FALSE)
Lates(out) == IF out.kind = "timeout" THEN BOOLEAN ELSE {FALSE}

\* the envs argument of a call: a dict, or Omitted for the default
Omitted == [omitted |-> "yes"]
EnvArgs == EnvDicts \cup {Omitted}

NoEnv == [k \in {} |-> 0]

\* LocalChannel.execute_wait: _envs is self._envs, out the command's outcome
LocalChannel_execute_wait(_envs, cmd, envs, out) ==
    LET current_env == DictUpdate(_envs, envs)
    IN  CASE out.kind = "launch_fail" ->
               [val |-> <<-1, "None", "None">>, raised |-> "no",
                launched |-> FALSE, cmdenv |-> NoEnv, cmd |-> cmd]
          [] out.kind = "timeout" ->
               [val |-> <<-1, "None", "None">>, raised |-> "no",
                launched |-> TRUE, cmdenv |-> current_env, cmd |-> cmd]
          [] out.kind = "undecodable" ->
               [val |-> <<>>, raised |-> "UnicodeDecodeError",
                launched |-> TRUE, cmdenv |-> current_env, cmd |-> cmd]
          [] OTHER ->
               [val |-> <<out.code, "stdout", "stderr">>, raised |-> "no",
                launched |-> TRUE, cmdenv |-> current_env, cmd |-> cmd]

\* SSHChannel.execute_wait: chan_envs is self.envs, envs the dict object
\* passed (or the default object), out the command's outcome, late whether
\* reading the streams of a command that outlived walltime raises
\* socket.timeout or returns after the command's exit
SSHChannel_execute_wait(chan_envs, cmd, envs, out, late) ==
    LET pe == prepend_envs(chan_envs, cmd, envs)
        run == RemoteRun(pe.cmdline, remote_environ)
    IN  CASE out.kind = "launch_fail" ->
               [val |-> <<>>, raised |-> "SSHException", envs |-> pe.env,
                launched |-> FALSE, cmdenv |-> NoEnv, cmd |-> run.cmd,
                cmdline |-> pe.cmdline]
          [] out.kind = "timeout" /\ late ->
               [val |-> <<>>, raised |-> "socket.timeout", envs |-> pe.env,
                launched |-> TRUE, cmdenv |-> run.environ, cmd |-> run.cmd,
                cmdline |-> pe.cmdline]
          [] out.kind = "undecodable" ->
               [val |-> <<>>, raised |-> "UnicodeDecodeError", envs |-> pe.env,
                launched |-> TRUE, cmdenv |-> run.environ, cmd |-> run.cmd,
                cmdline |-> pe.cmdline]
          [] OTHER ->
               [val |-> <<out.code, "stdout", "stderr">>, raised |-> "no",
                envs |-> pe.env,
                launched |-> TRUE, cmdenv |-> run.environ, cmd |-> run.cmd,
                cmdline |-> pe.cmdline]

LocalExecuteWait ==
    \E cmd \in Commands, envs \in EnvDicts, out \in Outcomes :
        LET r == LocalChannel_execute_wait(local__envs, cmd, envs, out)
        IN  /\ ret' = [op |-> "execute_wait", chan |-> "local", cmd |-> cmd,
                       envs |-> envs, chan_envs |-> local_envs, out |-> out,
                       envs_after |-> envs, run |-> r.cmd,
                       launched |-> r.launched, cmdenv |-> r.cmdenv,
                       val |-> r.val, raised |-> r.raised]
            /\ UNCHANGED <<provVars, chanVars, extVars>>

\* a call that passes envs changes the caller's dict; one that omits it
\* changes the default object
SSHExecuteWait ==
    \E cmd \in Commands, arg \in EnvArgs, out \in Outcomes :
    \E late \in Lates(out) :
        LET given == arg # Omitted
            envs == IF given THEN arg ELSE ssh_wait_default
            r == SSHChannel_execute_wait(ssh_envs, cmd, envs, out, late)
        IN  /\ ret' = [op |-> "execute_wait", chan |-> "ssh", cmd |-> cmd,
                       envs |-> envs, chan_envs |-> ssh_envs, out |-> out,
                       given |-> given, cmdline |-> r.cmdline,
                       envs_after |-> r.envs, run |-> r.cmd,
                       launched |-> r.launched, cmdenv |-> r.cmdenv,
                       val |-> r.val, raised |-> r.raised]
            /\ ssh_wait_default' = IF given THEN ssh_wait_default ELSE r.envs
            /\ UNCHANGED <<provVars, local_envs, local__envs, ssh_envs,
                           ssh_nowait_default, extVars>>

\* the provider untouched, LocalChannel(envs=e) and SSHChannel(envs=e)
\* constructed with the same overrides
InitChannel ==
    /\ resources = EmptyDict
    /\ deployment_name = Unset
    /\ backend = {}
    /\ now = 0
    /\ returned = <<>>
    /\ cancelled = {}
    /\ ncalls = 0
    /\ ret = NoCall
    /\ \E e \in EnvDicts :
          /\ local_envs = e
          /\ local__envs = LocalChannelEnvs(os_environ, e)
          /\ ssh_envs = e
          /\ ssh_wait_default = EmptyDict
          /\ ssh_nowait_default = EmptyDict
    /\ ExtInit

NextChannel == SSHExecuteWait \/ LocalExecuteWait

SpecChannel == InitChannel /\ [][NextChannel]_vars

----------------------------------------------------------------------------
(* The provider's specification *)

Init ==
    /\ resources = EmptyDict
    /\ deployment_name = Unset
    /\ backend = {}
    /\ now = 0
    /\ returned = <<>>
    /\ cancelled = {}
    /\ ncalls = 0
    /\ ret = NoCall
    /\ local_envs = EmptyDict
    /\ local__envs = LocalChannelEnvs(os_environ, EmptyDict)
    /\ ssh_envs = EmptyDict
    /\ ssh_wait_default = EmptyDict
    /\ ssh_nowait_default = EmptyDict
    /\ ExtInit

Next == Tick \/ Submit \/ Status \/ Cancel

Spec == Init /\ [][Next]_vars

----------------------------------------------------------------------------
(* Properties of the provider *)

Terminal == {"CANCELLED", "COMPLETED", "FAILED", "TIMEOUT"}

Issued == {returned[i] : i \in 1..Len(returned)}

\* the jobs of the last cancel call for which _delete_deployment was called
Attempted ==
    IF ret.done < Len(ret.job_ids) THEN 1..(ret.done + 1) ELSE 1..Len(ret.job_ids)

\* C1: once submit has returned J and cancel([J]) has returned [True], every
\* status call reports J as CANCELLED.
C1_StatusAfterCancel ==
    ret.op = "status" =>
        \A i \in 1..Len(ret.job_ids) :
            (ret.job_ids[i] \in Issued /\ ret.job_ids[i] \in cancelled)
                => ret.val[i] = "CANCELLED"

\* C2: every identifier a submit call has returned is a key of the record
\* table, after any sequence of submit, status and cancel calls.
C2_ReturnedIdsRecorded ==
    \A i \in 1..Len(returned) : returned[i] \in DOMAIN resources

\* C2 witness: a cancel call has run to its end on an identifier that submit
\* returned.
C2_Witness ==
    /\ ret.op = "cancel"
    /\ ret.raised = "no"
    /\ \E i \in 1..Len(ret.job_ids) : ret.job_ids[i] \in Issued

\* C3: no two submit calls return the same identifier.
C3_UniqueIds ==
    \A i, j \in 1..Len(returned) : i # j => returned[i] # returned[j]

\* C4: submit called when a deployment is already recorded returns None and
\* does not raise.
C4_NoneAtCapacity ==
    (ret.op = "submit" /\ ret.full) => (ret.raised = "no" /\ ret.val = None)

C6_OneBooleanPerId ==
    ret.op = "cancel" =>
        /\ ret.raised = "no"
        /\ Len(ret.val) = Len(ret.job_ids)
        /\ \/ \A i \in 1..Len(ret.val) : ret.val[i] = TRUE
           \/ \A i \in 1..Len(ret.val) : ret.val[i] = FALSE

\* C7: the record of an identifier that submit returns is RUNNING or PENDING
\* when submit returns.
C7_RunningAtReturn ==
    (ret.op = "submit" /\ ret.raised = "no" /\ ret.val # None) =>
        /\ ret.val \in DOMAIN resources
        /\ resources[ret.val].status \in {"RUNNING", "PENDING"}

\* C8: no call changes the status of a record that is in a terminal state,
\* and between non-terminal states the only change is PENDING to RUNNING.
C8_StatusMonotonic ==
    [][\A j \in DOMAIN resources :
          j \in DOMAIN resources' =>
              LET old == resources[j].status
                  new == resources'[j].status
              IN  /\ old \in Terminal => new = old
                  /\ (old \notin Terminal /\ new \notin Terminal /\ new # old)
                        => (old = "PENDING" /\ new = "RUNNING")]_vars

\* C8 witness: a submit call has run on a provider that holds a cancelled
\* record.
C8_Witness ==
    /\ ret.op = "submit"
    /\ ret.full
    /\ \E j \in DOMAIN resources : resources[j].status = "CANCELLED"

----------------------------------------------------------------------------
(* Properties of the channels *)

\* C9: execute_wait never raises, and a command that outlives walltime or
\* cannot be started gives (exit code < 0, no stdout, no stderr).
C9_ExecuteWaitNeverRaises ==
    ret.op = "execute_wait" =>
        /\ ret.raised = "no"
        /\ ret.out.kind \in {"timeout", "launch_fail"} =>
              (ret.val[1] < 0 /\ ret.val[2] = "None" /\ ret.val[3] = "None")

\* C10: the command's environment is the channel's overrides updated with
\* the call's overrides, the call's value winning for a name in both, on
\* either channel.
C10_CallEnvWins ==
    (ret.op = "execute_wait" /\ ret.launched) =>
        /\ \A k \in DOMAIN ret.chan_envs \cup DOMAIN ret.envs :
              /\ k \in DOMAIN ret.cmdenv
              /\ ret.cmdenv[k] = DictUpdate(ret.chan_envs, ret.envs)[k]
        /\ ret.run = ret.cmd

(***************************************************************************)
(* Paths and file systems                                                  *)
(*                                                                         *)
(* A path string is a sequence of tokens: names, "." and the separator    *)
(* "/".  A file system is a function from resolved paths (sequences of    *)
(* names starting at the root) to nodes; the root <<>> is a directory.     *)
(***************************************************************************)

\* index of the last separator of a path string, 0 if there is none
RECURSIVE rfind_sep(_, _)
rfind_sep(s, i) ==
    IF i = 0 THEN 0
    ELSE IF s[i] = "/" THEN i
    ELSE rfind_sep(s, i - 1)

\* str.rstrip('/')
RECURSIVE rstrip_sep(_)
rstrip_sep(s) ==
    IF s = <<>> THEN s
    ELSE IF s[Len(s)] = "/" THEN rstrip_sep(SubSeq(s, 1, Len(s) - 1))
    ELSE s

\* os.path.basename: what follows the last separator
basename(s) == SubSeq(s, rfind_sep(s, Len(s)) + 1, Len(s))

\* os.path.dirname: what precedes the last separator, trailing separators
\* stripped unless it consists of separators only
dirname(s) ==
    LET head == SubSeq(s, 1, rfind_sep(s, Len(s)))
    IN IF \A i \in 1..Len(head) : head[i] = "/" THEN head
       ELSE rstrip_sep(head)

\* os.path.join(a, b)
join(a, b) ==
    IF b # <<>> /\ b[1] = "/" THEN b
    ELSE IF a = <<>> \/ a[Len(a)] = "/" THEN a \o b
    ELSE a \o <<"/">> \o b

\* a + '/' + b
slash(a, b) == a \o <<"/">> \o b

\* the names of a path string appended to a resolved base
RECURSIVE walk(_, _, _)
walk(base, s, i) ==
    IF i > Len(s) THEN base
    ELSE IF s[i] \in {"/", "."} THEN walk(base, s, i + 1)
    ELSE walk(Append(base, s[i]), s, i + 1)

\* the resolved path a path string names, seen from directory at
Resolve(at, s) ==
    IF s # <<>> /\ s[1] = "/" THEN walk(<<>>, s, 1) ELSE walk(at, s, 1)

Dir == [kind |-> "dir", data |-> "", mode |-> "755"]
File(data, mode) == [kind |-> "file", data |-> data, mode |-> mode]

Exists(fs, p) == p = <<>> \/ p \in DOMAIN fs
IsDir(fs, p) == p = <<>> \/ (p \in DOMAIN fs /\ fs[p].kind = "dir")
IsFile(fs, p) == p \in DOMAIN fs /\ fs[p].kind = "file"
Parent(p) == SubSeq(p, 1, Len(p) - 1)
Prefixes(p) == {SubSeq(p, 1, n) : n \in 1..Len(p)}

\* the file system with node n at path p
Put(fs, p, n) == [q \in DOMAIN fs \cup {p} |-> IF q = p THEN n ELSE fs[q]]

\* os.makedirs(p): the error it raises ("no" for none) and the file system
os_makedirs(fs, p) ==
    IF Exists(fs, p) THEN [err |-> "EEXIST", fs |-> fs]
    ELSE IF \E q \in Prefixes(p) : IsFile(fs, q) THEN [err |-> "ENOTDIR", fs |-> fs]
    ELSE [err |-> "no",
          fs |-> [q \in DOMAIN fs \cup Prefixes(p) |->
                     IF q \in DOMAIN fs THEN fs[q] ELSE Dir]]

\* sftp mkdir(p): errno 2 when the parent is missing, a failure without
\* errno when the path exists or the parent is not a directory
sftp_mkdir(fs, p) ==
    IF Exists(fs, p) THEN [err |-> "failure", fs |-> fs]
    ELSE IF ~Exists(fs, Parent(p)) THEN [err |-> "ENOENT", fs |-> fs]
    ELSE IF ~IsDir(fs, Parent(p)) THEN [err |-> "failure", fs |-> fs]
    ELSE [err |-> "no", fs |-> Put(fs, p, Dir)]

\* a file opened for writing at p: created empty with the default mode,
\* truncated with its mode kept when it is there already
OpenWrite(fs, p) ==
    IF IsDir(fs, p) THEN [err |-> "IsADirectoryError", fs |-> fs]
    ELSE IF ~IsDir(fs, Parent(p)) THEN [err |-> "FileNotFoundError", fs |-> fs]
    ELSE [err |-> "no",
          fs |-> Put(fs, p, File("", IF IsFile(fs, p) THEN fs[p].mode ELSE "644"))]

\* sftp get(src, dst): the local file is opened for writing before the
\* remote one is read
sftp_get(remote, local, src, dst) ==
    LET o == OpenWrite(local, dst)
    IN IF o.err # "no" THEN [err |-> o.err, fs |-> local]
       ELSE IF ~IsFile(remote, src) THEN [err |-> "IOError", fs |-> o.fs]
       ELSE [err |-> "no",
             fs |-> Put(o.fs, dst, File(remote[src].data, o.fs[dst].mode))]

\* sftp put(src, dst, confirm=True): the local file is opened for reading
\* before the remote one is opened for writing
sftp_put(local, remote, src, dst) ==
    IF ~Exists(local, src) THEN [err |-> "FileNotFoundError", fs |-> remote]
    ELSE IF ~IsFile(local, src) THEN [err |-> "IsADirectoryError", fs |-> remote]
    ELSE LET o == OpenWrite(remote, dst)
         IN IF o.err # "no" THEN [err |-> "IOError", fs |-> remote]
            ELSE [err |-> "no",
                  fs |-> Put(o.fs, dst, File(local[src].data, o.fs[dst].mode))]

\* shutil.copyfile(src, dst): refuses to copy a file onto itself
shutil_copyfile(fs, src, dst) ==
    IF Exists(fs, src) /\ src = dst THEN [err |-> "SameFileError", fs |-> fs]
    ELSE IF ~Exists(fs, src) THEN [err |-> "FileNotFoundError", fs |-> fs]
    ELSE IF ~IsFile(fs, src) THEN [err |-> "IsADirectoryError", fs |-> fs]
    ELSE LET o == OpenWrite(fs, dst)
         IN IF o.err # "no" THEN o
            ELSE [err |-> "no",
                  fs |-> Put(o.fs, dst, File(fs[src].data, o.fs[dst].mode))]

\* chmod(p, 0o777)
chmod777(fs, p) ==
    IF ~Exists(fs, p) \/ p = <<>> THEN [err |-> "FileNotFoundError", fs |-> fs]
    ELSE [err |-> "no", fs |-> Put(fs, p, [fs[p] EXCEPT !.mode = "777"])]

\* the remote side resolves relative paths from the login directory
RemoteHome == <<"h">>

\* what a file operation of a channel hands back: the exception raised
\* ("no" for none) with the chain of exceptions it wraps, the value
\* returned, and both file systems afterwards
Outcome(raised, cause, value, local, remote) ==
    [raised |-> raised, cause |-> cause, value |-> value,
     lfs |-> local, rfs |-> remote]

(***************************************************************************)
(* SSHChannel.pull_file                                                    *)
(***************************************************************************)

\* pull_file without the check for a name collision
SSHChannel_pull_file_overwrite(local, remote, at, remote_source, local_dir) ==
    LET local_dest == slash(local_dir, basename(remote_source))
        m == os_makedirs(local, Resolve(at, local_dir))
        g == sftp_get(remote, m.fs, Resolve(RemoteHome, remote_source),
                      Resolve(at, local_dest))
    IN IF m.err \notin {"no", "EEXIST"}
       THEN Outcome("NameError", <<>>, None, m.fs, remote)
       ELSE IF g.err # "no"
       THEN Outcome("FileCopyException", <<g.err>>, None, g.fs, remote)
       ELSE Outcome("no", <<>>, local_dest, g.fs, remote)

SSHChannel_pull_file(local, remote, at, remote_source, local_dir) ==
    LET local_dest == slash(local_dir, basename(remote_source))
        m == os_makedirs(local, Resolve(at, local_dir))
        g == sftp_get(remote, m.fs, Resolve(RemoteHome, remote_source),
                      Resolve(at, local_dest))
    IN IF m.err \notin {"no", "EEXIST"}
       \* the handler names script_dir, which is not defined there
       THEN Outcome("NameError", <<>>, None, m.fs, remote)
       ELSE IF Exists(m.fs, Resolve(at, local_dest))
       THEN Outcome("FileExists", <<>>, None, m.fs, remote)
       ELSE IF g.err # "no"
       THEN Outcome("FileCopyException", <<g.err>>, None, g.fs, remote)
       ELSE Outcome("no", <<>>, local_dest, g.fs, remote)

(***************************************************************************)
(* push_file                                                               *)
(***************************************************************************)

\* push_file that copies without setting the mode of the destination
LocalChannel_push_file_nochmod(local, remote, at, source, dest_dir) ==
    LET local_dest == join(dest_dir, basename(source))
        c == shutil_copyfile(local, Resolve(at, source), Resolve(at, local_dest))
    IN IF dirname(source) # dest_dir
       THEN IF c.err # "no"
            THEN Outcome("FileCopyException", <<c.err>>, None, c.fs, remote)
            ELSE Outcome("no", <<>>, local_dest, c.fs, remote)
       ELSE Outcome("no", <<>>, local_dest, local, remote)

LocalChannel_push_file(local, remote, at, source, dest_dir) ==
    LET local_dest == join(dest_dir, basename(source))
        c == shutil_copyfile(local, Resolve(at, source), Resolve(at, local_dest))
        m == chmod777(c.fs, Resolve(at, local_dest))
    IN \* the two directories are compared as strings
       IF dirname(source) # dest_dir
       THEN IF c.err # "no"
            THEN Outcome("FileCopyException", <<c.err>>, None, c.fs, remote)
            ELSE IF m.err # "no"
            THEN Outcome("FileCopyException", <<m.err>>, None, m.fs, remote)
            ELSE Outcome("no", <<>>, local_dest, m.fs, remote)
       ELSE Outcome("no", <<>>, local_dest, local, remote)

SSHChannel_push_file(local, remote, at, local_source, remote_dir) ==
    LET remote_dest == slash(remote_dir, basename(local_source))
        d == sftp_mkdir(remote, Resolve(RemoteHome, remote_dir))
        u == sftp_put(local, d.fs, Resolve(at, local_source),
                      Resolve(RemoteHome, remote_dest))
        m == chmod777(u.fs, Resolve(RemoteHome, remote_dest))
    IN IF d.err = "ENOENT"
       THEN Outcome("BadScriptPath", <<"IOError">>, None, local, d.fs)
       ELSE IF u.err # "no"
       THEN Outcome("FileCopyException", <<u.err>>, None, local, u.fs)
       ELSE IF m.err # "no"
       THEN Outcome("FileCopyException", <<m.err>>, None, local, m.fs)
       ELSE Outcome("no", <<>>, remote_dest, local, m.fs)

(***************************************************************************)
(* The specification of single-file transfers                              *)
(***************************************************************************)

\* number of file operations in a behaviour
MaxFileOps == 2

\* a file system made of directories and of files with their contents
Tree(dirs, files) ==
    [q \in dirs \cup DOMAIN files |->
        IF q \in dirs THEN Dir ELSE File(files[q], "644")]

Work == <<"w">>

\* w/a/b and the empty directory w/e
LocalFlat ==
    Tree({<<"w">>, <<"w", "a">>, <<"w", "e">>},
         [q \in {<<"w", "a", "b">>} |-> "B"])

RemoteBare == Tree({<<"h">>}, EmptyDict)
RemoteStaged ==
    Tree({<<"h">>, <<"h", "r">>}, [q \in {<<"h", "r", "b">>} |-> "R"])

\* the state a file operation starts from, kept with its result
Called(op, chan, source, dir, o) ==
    [op |-> op, chan |-> chan, source |-> source, dir |-> dir,
     raised |-> o.raised, cause |-> o.cause, value |-> o.value,
     lfs0 |-> lfs, rfs0 |-> rfs]

FileStep(op, chan, source, dir, o) ==
    /\ nops < MaxFileOps
    /\ nops' = nops + 1
    /\ lfs' = o.lfs
    /\ rfs' = o.rfs
    /\ ret' = Called(op, chan, source, dir, o)
    /\ UNCHANGED <<provVars, chanVars, restVars, cwd, pushed, lifeVars>>

LocalSources ==
    {<<"a", "/", "b">>, <<"/", "w", "/", "a", "/", "b">>, <<"a", "/", "x">>}
LocalDirs ==
    {<<"a">>, <<"a", "/">>, <<"/", "w", "/", "a">>, <<"e">>, <<"n">>}
RemoteSources ==
    {<<"r", "/", "b">>, <<"/", "h", "/", "r", "/", "b">>, <<"r", "/", "x">>}
RemoteDirs ==
    {<<"r">>, <<"/", "h", "/", "r">>, <<"q", "/", "s">>, <<"r", "/", "b">>}

LocalPushFile ==
    \E source \in LocalSources, dest_dir \in LocalDirs :
        FileStep("push_file", "local", source, dest_dir,
                 LocalChannel_push_file(lfs, rfs, cwd, source, dest_dir))

SSHPushFile ==
    \E local_source \in LocalSources, remote_dir \in RemoteDirs :
        FileStep("push_file", "ssh", local_source, remote_dir,
                 SSHChannel_push_file(lfs, rfs, cwd, local_source, remote_dir))

PullFile ==
    \E remote_source \in RemoteSources, local_dir \in LocalDirs :
        FileStep("pull_file", "ssh", remote_source, local_dir,
                 SSHChannel_pull_file(lfs, rfs, cwd, remote_source, local_dir))

\* provider and environments as constructed, no call made
Idle ==
    /\ resources = EmptyDict
    /\ deployment_name = Unset
    /\ backend = {}
    /\ now = 0
    /\ returned = <<>>
    /\ cancelled = {}
    /\ ncalls = 0
    /\ ret = NoCall
    /\ local_envs = EmptyDict
    /\ local__envs = LocalChannelEnvs(os_environ, EmptyDict)
    /\ ssh_envs = EmptyDict
    /\ ssh_wait_default = EmptyDict
    /\ ssh_nowait_default = EmptyDict

InitFiles ==
    /\ Idle
    /\ lfs = LocalFlat
    /\ rfs \in {RemoteBare, RemoteStaged}
    /\ cwd \in {Work, <<>>}
    /\ pushed = [op |-> "none"]
    /\ nops = 0
    /\ NoChannels
    /\ NoLauncher
    /\ NoThreads

NextFiles == LocalPushFile \/ SSHPushFile \/ PullFile

SpecFiles == InitFiles /\ [][NextFiles]_vars

(***************************************************************************)
(* Properties of file transfers                                            *)
(***************************************************************************)

\* C11: pull_file into a local directory that already holds a file of the
\* same base name raises FileExists without starting the transfer, and
\* leaves the local file system as it was
C11_PullConflictRaisesFileExists ==
    (/\ ret.op = "pull_file"
     /\ IsFile(ret.lfs0, Resolve(cwd, slash(ret.dir, basename(ret.source)))))
    => /\ ret.raised = "FileExists"
       /\ lfs = ret.lfs0
       /\ rfs = ret.rfs0

C11_Witness ==
    /\ ret.op = "pull_file"
    /\ IsFile(ret.lfs0, Resolve(cwd, slash(ret.dir, basename(ret.source))))
    /\ IsFile(ret.rfs0, Resolve(RemoteHome, ret.source))
    /\ ret.raised = "FileExists"

\* the file a push_file call names as its result
Pushed(r) ==
    IF r.chan = "local" THEN Resolve(cwd, r.value)
    ELSE Resolve(RemoteHome, r.value)

\* the file system a push_file call writes to
Target(r) == IF r.chan = "local" THEN lfs ELSE rfs

\* C12: LocalChannel.push_file of an existing file whose directory and
\* dest_dir resolve to the same directory, however each is spelled, copies
\* nothing, raises nothing and returns join(dest_dir, basename(source))
C12_SameDirectoryIsNoOp ==
    (/\ ret.op = "push_file"
     /\ ret.chan = "local"
     /\ IsFile(ret.lfs0, Resolve(cwd, ret.source))
     /\ Resolve(cwd, dirname(ret.source)) = Resolve(cwd, ret.dir))
    => /\ ret.raised = "no"
       /\ lfs = ret.lfs0
       /\ ret.value = join(ret.dir, basename(ret.source))

\* C13 as stated: whenever push_file of an existing file returns a path, the
\* file at that path is executable by anyone, on both channels and in the
\* coinciding case too
C13_PushedAlwaysExecutable ==
    (/\ ret.op = "push_file"
     /\ ret.raised = "no"
     /\ IsFile(ret.lfs0, Resolve(cwd, ret.source)))
    => /\ IsFile(Target(ret), Pushed(ret))
       /\ Target(ret)[Pushed(ret)].mode = "777"

\* C13: whenever push_file returns a path after copying (SSHChannel always,
\* LocalChannel when dirname(source) is not the string dest_dir), the file
\* at that path has mode 0o777; when the two strings are equal LocalChannel
\* does nothing and returns the path
C13_CopiedIsExecutable ==
    (ret.op = "push_file" /\ ret.raised = "no")
    => IF ret.chan = "local" /\ dirname(ret.source) = ret.dir
       THEN lfs = ret.lfs0 /\ rfs = ret.rfs0
       ELSE /\ IsFile(Target(ret), Pushed(ret))
            /\ Target(ret)[Pushed(ret)].mode = "777"

C13_Witness ==
    /\ ret.op = "push_file"
    /\ ret.chan = "local"
    /\ ret.raised = "no"
    /\ dirname(ret.source) # ret.dir
    /\ ~Exists(ret.lfs0, Pushed(ret))
    /\ lfs[Pushed(ret)].mode = "777"

(***************************************************************************)
(* Channel life cycle: construction, close, execute_no_wait                *)
(***************************************************************************)

\* number of processes started in a behaviour
MaxProcs == 2

\* LocalChannel.__init__: the script directory is made, and an EEXIST
\* failure counts as made
LocalChannel_init(local, at, script_dir) ==
    LET _script_dir == Resolve(at, script_dir)
        m == os_makedirs(local, _script_dir)
    IN IF m.err \notin {"no", "EEXIST"}
       THEN [raised |-> "BadScriptPath", chan |-> [state |-> "none"], lfs |-> m.fs]
       ELSE [raised |-> "no",
             chan |-> [state |-> "open", script_dir |-> _script_dir],
             lfs |-> m.fs]

ConnectOutcomes ==
    {"connected", "BadHostKeyException", "AuthenticationException", "timeout"}

\* the directory SSHChannel takes when none is given
DefaultScriptDir == <<"/", "tmp", "/", "user", "/", "scripts", "/">>

\* SSHChannel.__init__: the script directory is a name that is kept, the
\* connection is made; nothing is made on the remote side
SSHChannel_init(script_dir, conn) ==
    LET _script_dir == IF script_dir # None /\ script_dir # <<>>
                       THEN script_dir ELSE DefaultScriptDir
    IN CASE conn = "connected" ->
              [raised |-> "no",
               chan |-> [state |-> "open",
                         script_dir |-> Resolve(RemoteHome, _script_dir)]]
         [] conn = "BadHostKeyException" ->
              [raised |-> "BadHostKeyException", chan |-> [state |-> "none"]]
         [] conn = "AuthenticationException" ->
              [raised |-> "AuthException", chan |-> [state |-> "none"]]
         [] OTHER ->
              [raised |-> "SSHException", chan |-> [state |-> "none"]]

\* LocalChannel.close
LocalChannel_close(chan) ==
    [raised |-> "no", value |-> FALSE, chan |-> chan]

\* a close that refuses a connection closed before
SSHChannel_close_once(chan) ==
    IF chan.state = "closed"
    THEN [raised |-> "SSHException", value |-> None, chan |-> chan]
    ELSE [raised |-> "no", value |-> None, chan |-> [chan EXCEPT !.state = "closed"]]

\* SSHChannel.close: the client's close, which drops the transport if
\* there is one
SSHChannel_close(chan) ==
    [raised |-> "no", value |-> None, chan |-> [chan EXCEPT !.state = "closed"]]

Launches == {"started", "launch_fail"}

\* LocalChannel.execute_no_wait(*args): args are the positional arguments
\* after self; walltime has no default
LocalChannel_execute_no_wait(ps, args, launch) ==
    IF Len(args) < 2
    THEN [raised |-> "TypeError", value |-> None, procs |-> ps]
    ELSE IF launch = "launch_fail"
    \* the handler logs, then the return names pid, never bound
    THEN [raised |-> "UnboundLocalError", value |-> None, procs |-> ps]
    ELSE [raised |-> "no",
          value |-> <<Len(ps) + 1, Len(ps) + 1>>,
          procs |-> Append(ps, [state |-> "running", cmd |-> args[1]])]

\* SSHChannel.execute_no_wait(*args, envs): walltime defaults to 2; the
\* command line is built, and envs updated, before exec_command is reached
SSHChannel_execute_no_wait(chan, chan_envs, ps, args, envs, launch) ==
    LET pe == prepend_envs(chan_envs, args[1], envs)
    IN  IF chan.state = "closed"
        THEN [raised |-> "AttributeError", value |-> None, procs |-> ps,
              envs |-> pe.env, cmdline |-> pe.cmdline]
        ELSE IF launch = "launch_fail"
        THEN [raised |-> "SSHException", value |-> None, procs |-> ps,
              envs |-> pe.env, cmdline |-> pe.cmdline]
        ELSE [raised |-> "no",
              value |-> <<None, Len(ps) + 1, Len(ps) + 1>>,
              procs |-> Append(ps, [state |-> "running", cmd |-> pe.cmdline]),
              envs |-> pe.env, cmdline |-> pe.cmdline]

\* what a life-cycle call starts from
Before == <<local_chan, ssh_chan, procs, lfs, rfs>>

LocalScriptDirs ==
    {<<".", "/", ".scripts">>, <<"a", "/", "b">>, <<"a", "/", "b", "/", "s">>}
RemoteScriptDirs ==
    {None, <<"/", "h", "/", "r">>, <<"/", "h", "/", "s">>}

NewLocalChannel ==
    \E script_dir \in LocalScriptDirs :
        LET r == LocalChannel_init(lfs, cwd, script_dir)
        IN /\ lfs' = r.lfs
           /\ local_chan' = IF r.raised = "no" THEN r.chan ELSE local_chan
           /\ ret' = [op |-> "__init__", chan |-> "local", raised |-> r.raised,
                      value |-> r.chan, before |-> Before]
           /\ UNCHANGED <<provVars, chanVars, restVars, rfs, cwd, pushed, nops,
                          ssh_chan, procs>>

NewSSHChannel ==
    \E script_dir \in RemoteScriptDirs, conn \in ConnectOutcomes :
        LET r == SSHChannel_init(script_dir, conn)
        IN /\ ssh_chan' = IF r.raised = "no" THEN r.chan ELSE ssh_chan
           /\ ret' = [op |-> "__init__", chan |-> "ssh", raised |-> r.raised,
                      value |-> r.chan, before |-> Before]
           /\ UNCHANGED <<provVars, chanVars, restVars, fileVars, local_chan, procs>>

LocalClose ==
    /\ local_chan.state # "none"
    /\ LET r == LocalChannel_close(local_chan)
       IN /\ local_chan' = r.chan
          /\ ret' = [op |-> "close", chan |-> "local", raised |-> r.raised,
                     value |-> r.value, before |-> Before]
    /\ UNCHANGED <<provVars, chanVars, restVars, fileVars, ssh_chan, procs>>

SSHClose ==
    /\ ssh_chan.state # "none"
    /\ LET r == SSHChannel_close(ssh_chan)
       IN /\ ssh_chan' = r.chan
          /\ ret' = [op |-> "close", chan |-> "ssh", raised |-> r.raised,
                     value |-> r.value, before |-> Before]
    /\ UNCHANGED <<provVars, chanVars, restVars, fileVars, local_chan, procs>>

\* the calls made: execute_no_wait(cmd) and execute_no_wait(cmd, 2)
NoWaitArgs == {<<c>> : c \in Commands} \cup {<<c, 2>> : c \in Commands}

LocalExecuteNoWait ==
    /\ local_chan.state # "none"
    /\ Len(procs) < MaxProcs
    /\ \E args \in NoWaitArgs, launch \in Launches :
        LET r == LocalChannel_execute_no_wait(procs, args, launch)
        IN /\ procs' = r.procs
           /\ ret' = [op |-> "execute_no_wait", chan |-> "local",
                      raised |-> r.raised, value |-> r.value, args |-> args,
                      launch |-> launch, before |-> Before]
    /\ UNCHANGED <<provVars, chanVars, restVars, fileVars, local_chan, ssh_chan>>

SSHExecuteNoWait ==
    /\ ssh_chan.state # "none"
    /\ Len(procs) < MaxProcs
    /\ \E args \in NoWaitArgs, launch \in Launches :
        LET r == SSHChannel_execute_no_wait(ssh_chan, ssh_envs, procs, args,
                                            ssh_nowait_default, launch)
        IN /\ procs' = r.procs
           /\ ssh_nowait_default' = r.envs
           /\ ret' = [op |-> "execute_no_wait", chan |-> "ssh",
                      raised |-> r.raised, value |-> r.value, args |-> args,
                      launch |-> launch, before |-> Before]
    /\ UNCHANGED <<provVars, local_envs, local__envs, ssh_envs, ssh_wait_default,
                   restVars, fileVars, local_chan, ssh_chan>>

\* a started process ends by itself
ProcExit ==
    /\ \E i \in 1..Len(procs) :
        /\ procs[i].state = "running"
        /\ procs' = [procs EXCEPT ![i].state = "exited"]
    /\ UNCHANGED <<provVars, chanVars, restVars, fileVars, local_chan, ssh_chan, ret>>

InitLife ==
    /\ Idle
    /\ lfs = LocalFlat
    /\ rfs \in {RemoteBare, RemoteStaged}
    /\ cwd = Work
    /\ pushed = [op |-> "none"]
    /\ nops = 0
    /\ NoChannels
    /\ NoLauncher
    /\ NoThreads

NextLife ==
    \/ NewSSHChannel
    \/ NewLocalChannel
    \/ LocalClose
    \/ SSHClose
    \/ LocalExecuteNoWait
    \/ SSHExecuteNoWait
    \/ ProcExit

SpecLife == InitLife /\ [][NextLife]_vars

(***************************************************************************)
(* Properties of the channel life cycle                                    *)
(***************************************************************************)

\* the file system a channel's script directory is on
ScriptFS(r) == IF r.chan = "local" THEN lfs ELSE rfs

\* C14: whenever the constructor of LocalChannel or SSHChannel returns a
\* channel, the channel's script directory exists as a directory; when it
\* raises, no channel is returned
C14_ScriptDirExistsAfterInit ==
    (ret.op = "__init__")
    => IF ret.raised = "no"
       THEN IsDir(ScriptFS(ret), ret.value.script_dir)
       ELSE ret.value.state = "none"

\* C15: close never raises; a close of an SSHChannel closed before changes
\* nothing; a close of a LocalChannel changes nothing and returns False
C15_CloseIdempotent ==
    [][(ret' # ret /\ ret'.op = "close")
       => /\ ret'.raised = "no"
          /\ (ret'.chan = "ssh" /\ ssh_chan.state = "closed")
                => UNCHANGED <<provVars, chanVars, extVars>>
          /\ ret'.chan = "local"
                => (UNCHANGED <<provVars, chanVars, extVars>> /\ ret'.value = FALSE)]_vars

C15_Witness ==
    /\ ret.op = "close"
    /\ ret.chan = "ssh"
    /\ ret.before[2].state = "closed"
    /\ ret.raised = "no"
    /\ local_chan.state = "open"

\* C16: execute_no_wait(cmd), issued while earlier commands may still be
\* running and with a command that can be started, returns a handle of its
\* own to a started process
C16_NoWaitReturnsOwnHandle ==
    (/\ ret.op = "execute_no_wait"
     /\ ret.args \in {<<c>> : c \in Commands}
     /\ ret.launch = "started"
     /\ (ret.chan = "ssh" => ret.before[2].state = "open"))
    => /\ ret.raised = "no"
       /\ ret.value[Len(ret.value)] \in DOMAIN procs
       /\ ret.value[Len(ret.value)] \notin DOMAIN ret.before[3]

(***************************************************************************)
(* SSHChannel.push_directory and pull_directory                            *)
(***************************************************************************)

\* the names a listing can return, in one of its orders
AllNames == <<"a", "b", "c", "d", "e", "h", "r", "w">>

RECURSIVE Reverse(_)
Reverse(q) == IF q = <<>> THEN <<>> ELSE Append(Reverse(Tail(q)), Head(q))

\* listdir hands the entries back in an order of its own
Orders == {"forward", "backward"}

\* os.listdir / sftp listdir of directory p
Listing(fs, p, order) ==
    LET IsEntry(n) == Append(p, n) \in DOMAIN fs
        names == SelectSeq(AllNames, IsEntry)
    IN IF order = "forward" THEN names ELSE Reverse(names)

\* what a directory transfer hands back: the exception raised with the
\* chain of exceptions it wraps, both file systems afterwards, and the
\* file transfers attempted, in order, with their success
Transfer(raised, cause, local, remote, log) ==
    [raised |-> raised, cause |-> cause, lfs |-> local, rfs |-> remote,
     log |-> log]

\* except Exception as e: raise FileCopyException(e, self.hostname)
Wrap(t) ==
    IF t.raised = "no" THEN t
    ELSE [t EXCEPT !.raised = "FileCopyException",
                   !.cause = <<t.raised>> \o t.cause]

\* what listdir raises for a path that is no directory
ListError(fs, p) ==
    IF Exists(fs, p) THEN "NotADirectoryError" ELSE "FileNotFoundError"

RECURSIVE push_directory(_, _, _, _, _, _)
RECURSIVE push_entries(_, _, _, _, _, _, _, _)
RECURSIVE push_entries_all(_, _, _, _, _, _, _, _)

\* a loop that goes on after a failed entry and raises the first failure
\* at its end
push_entries_all(local, remote, at, file_list, i, local_source, dest, order) ==
    IF i > Len(file_list) THEN Transfer("no", <<>>, local, remote, <<>>)
    ELSE LET r == push_directory(local, remote, at,
                                 join(local_source, <<file_list[i]>>), dest, order)
             rest == push_entries_all(local, r.rfs, at, file_list, i + 1,
                                      local_source, dest, order)
         IN IF r.raised # "no"
            THEN [rest EXCEPT !.raised = r.raised, !.cause = r.cause,
                              !.log = r.log \o rest.log]
            ELSE [rest EXCEPT !.log = r.log \o rest.log]

\* the loop of push_directory from entry i on
push_entries(local, remote, at, file_list, i, local_source, dest, order) ==
    IF i > Len(file_list) THEN Transfer("no", <<>>, local, remote, <<>>)
    ELSE LET r == push_directory(local, remote, at,
                                 join(local_source, <<file_list[i]>>), dest, order)
             rest == push_entries(local, r.rfs, at, file_list, i + 1,
                                  local_source, dest, order)
         IN IF r.raised # "no" THEN r
            ELSE [rest EXCEPT !.log = r.log \o rest.log]

\* SSHChannel.push_directory: the directory is looked up and made under
\* its bare name on the remote side, and listed under its bare name on the
\* local side
push_directory(local, remote, at, local_source, remote_dir, order) ==
    LET directory_name == basename(local_source)
        dest == slash(remote_dir, directory_name)
        made == IF Exists(remote, Resolve(RemoteHome, directory_name))
                THEN [err |-> "no", fs |-> remote]
                ELSE sftp_mkdir(remote, Resolve(RemoteHome, directory_name))
        listed == Resolve(at, directory_name)
        f == SSHChannel_push_file(local, remote, at, local_source, remote_dir)
    IN Wrap(IF IsDir(local, Resolve(at, local_source))
            THEN IF made.err # "no"
                 THEN Transfer("IOError", <<>>, local, made.fs, <<>>)
                 ELSE IF ~IsDir(local, listed)
                 THEN Transfer(ListError(local, listed), <<>>, local, made.fs, <<>>)
                 ELSE push_entries(local, made.fs, at,
                                   Listing(local, listed, order), 1,
                                   local_source, dest, order)
            ELSE Transfer(f.raised, f.cause, f.lfs, f.rfs,
                          <<[path |-> local_source, dest |-> f.value,
                             ok |-> f.raised = "no"]>>))

RECURSIVE pull_directory(_, _, _, _, _, _)
RECURSIVE pull_entries(_, _, _, _, _, _, _, _)

\* the loop of pull_directory from entry i on
pull_entries(local, remote, at, file_list, i, remote_source, dest, order) ==
    IF i > Len(file_list) THEN Transfer("no", <<>>, local, remote, <<>>)
    ELSE LET r == pull_directory(local, remote, at,
                                 slash(remote_source, <<file_list[i]>>), dest, order)
             rest == pull_entries(r.lfs, remote, at, file_list, i + 1,
                                  remote_source, dest, order)
         IN IF r.raised # "no" THEN r
            ELSE [rest EXCEPT !.log = r.log \o rest.log]

\* SSHChannel.pull_directory: the directory is made under its bare name in
\* the working directory
pull_directory(local, remote, at, remote_source, local_dir, order) ==
    LET directory_name == basename(remote_source)
        dest == join(local_dir, directory_name)
        made == IF Exists(local, Resolve(at, directory_name))
                THEN [err |-> "no", fs |-> local]
                ELSE os_makedirs(local, Resolve(at, directory_name))
        f == SSHChannel_pull_file(local, remote, at, remote_source, local_dir)
    IN Wrap(IF ~Exists(remote, Resolve(RemoteHome, remote_source))
            THEN Transfer("IOError", <<>>, local, remote, <<>>)
            ELSE IF IsDir(remote, Resolve(RemoteHome, remote_source))
            THEN IF made.err # "no"
                 THEN Transfer("OSError", <<>>, made.fs, remote, <<>>)
                 ELSE pull_entries(made.fs, remote, at,
                                   Listing(remote, Resolve(RemoteHome, remote_source),
                                           order), 1,
                                   remote_source, dest, order)
            ELSE Transfer(f.raised, f.cause, f.lfs, f.rfs,
                          <<[path |-> remote_source, dest |-> f.value,
                             ok |-> f.raised = "no"]>>))

(***************************************************************************)
(* The specification of directory transfers                                *)
(***************************************************************************)

\* w/a/b, w/a/c/d and the empty directory w/e
LocalNested ==
    Tree({<<"w">>, <<"w", "a">>, <<"w", "a", "c">>, <<"w", "e">>},
         [q \in {<<"w", "a", "b">>, <<"w", "a", "c", "d">>} |->
             IF q = <<"w", "a", "b">> THEN "B" ELSE "D"])

\* the same with a directory w/c of its own beside w/a
LocalShadow ==
    Tree({<<"w">>, <<"w", "a">>, <<"w", "a", "c">>, <<"w", "e">>, <<"w", "c">>},
         [q \in {<<"w", "a", "b">>, <<"w", "a", "c", "d">>, <<"w", "c", "d">>} |->
             IF q = <<"w", "a", "b">> THEN "B"
             ELSE IF q = <<"w", "a", "c", "d">> THEN "D" ELSE "X"])

TreeSources == {<<"a">>, <<"/", "w", "/", "a">>}
TreeRemoteDirs == {<<"r">>, <<"/", "h", "/", "r">>}
PullSources == {<<"r", "/", "a">>, <<"r", "/", "b">>}
PullDirs == {<<"e">>, <<"/", "w", "/", "e">>}

\* the record of a directory transfer
Moved(op, source, dir, order, t) ==
    [op |-> op, chan |-> "ssh", source |-> source, dir |-> dir,
     order |-> order, raised |-> t.raised, cause |-> t.cause,
     value |-> IF t.raised = "no" THEN dir ELSE None, log |-> t.log,
     lfs0 |-> lfs, rfs0 |-> rfs]

PushDirectory ==
    \E local_source \in TreeSources, remote_dir \in TreeRemoteDirs, order \in Orders :
        LET t == push_directory(lfs, rfs, cwd, local_source, remote_dir, order)
        IN /\ nops < MaxFileOps
           /\ nops' = nops + 1
           /\ lfs' = t.lfs
           /\ rfs' = t.rfs
           /\ ret' = Moved("push_directory", local_source, remote_dir, order, t)
           /\ pushed' = ret'
           /\ UNCHANGED <<provVars, chanVars, restVars, cwd, lifeVars>>

PullDirectory ==
    \E remote_source \in PullSources, local_dir \in PullDirs, order \in Orders :
        LET t == pull_directory(lfs, rfs, cwd, remote_source, local_dir, order)
        IN /\ nops < MaxFileOps
           /\ nops' = nops + 1
           /\ lfs' = t.lfs
           /\ rfs' = t.rfs
           /\ ret' = Moved("pull_directory", remote_source, local_dir, order, t)
           /\ UNCHANGED <<provVars, chanVars, restVars, cwd, pushed, lifeVars>>

InitTrees ==
    /\ Idle
    /\ lfs \in {LocalFlat, LocalNested, LocalShadow}
    /\ rfs = RemoteStaged
    /\ cwd \in {Work, <<>>}
    /\ pushed = [op |-> "none"]
    /\ nops = 0
    /\ NoChannels
    /\ NoLauncher
    /\ NoThreads

NextTrees == PushDirectory \/ PullDirectory

SpecTrees == InitTrees /\ [][NextTrees]_vars

(***************************************************************************)
(* Properties of directory transfers                                       *)
(***************************************************************************)

\* the files below directory root, by their path from root's own name on,
\* with their contents
FilesUnder(fs, root) ==
    LET below == {q \in DOMAIN fs : /\ fs[q].kind = "file"
                                    /\ Len(q) > Len(root)
                                    /\ SubSeq(q, 1, Len(root)) = root}
    IN [rel \in {SubSeq(q, Len(root), Len(q)) : q \in below} |->
           fs[Parent(root) \o rel].data]

\* C17: push_directory of a local tree into an existing remote directory,
\* then pull_directory of the pushed tree into an empty local directory:
\* neither raises, and the files pulled are the files pushed, by relative
\* path and contents, whatever the tree and the working directory
C17_DirectoryRoundTrip ==
    (/\ ret.op = "pull_directory"
     /\ pushed.op = "push_directory"
     /\ IsDir(pushed.lfs0, Resolve(cwd, pushed.source))
     /\ IsDir(pushed.rfs0, Resolve(RemoteHome, pushed.dir))
     /\ Resolve(RemoteHome, ret.source)
           = Resolve(RemoteHome, slash(pushed.dir, basename(pushed.source)))
     /\ IsDir(ret.lfs0, Resolve(cwd, ret.dir))
     /\ Listing(ret.lfs0, Resolve(cwd, ret.dir), "forward") = <<>>)
    => /\ pushed.raised = "no"
       /\ ret.raised = "no"
       /\ FilesUnder(lfs, Resolve(cwd, join(ret.dir, basename(ret.source))))
             = FilesUnder(pushed.lfs0, Resolve(cwd, pushed.source))

\* the exception types that wrap another exception
Wrappers == {"FileCopyException", "BadScriptPath"}

\* the transfers logged before a failure succeeded and their files are
\* where they were put, with the contents of their sources
CopiedStay(r) ==
    \A i \in 1..Len(r.log) :
        /\ i < Len(r.log) => r.log[i].ok
        /\ r.log[i].ok =>
              IF r.op = "push_directory"
              THEN /\ IsFile(rfs, Resolve(RemoteHome, r.log[i].dest))
                   /\ rfs[Resolve(RemoteHome, r.log[i].dest)].data
                         = lfs[Resolve(cwd, r.log[i].path)].data
              ELSE /\ IsFile(lfs, Resolve(cwd, r.log[i].dest))
                   /\ lfs[Resolve(cwd, r.log[i].dest)].data
                         = rfs[Resolve(RemoteHome, r.log[i].path)].data

\* a transfer of an existing directory that raised
Failed(r) ==
    /\ r.op \in {"push_directory", "pull_directory"}
    /\ r.raised # "no"
    /\ IF r.op = "push_directory"
       THEN IsDir(r.lfs0, Resolve(cwd, r.source))
       ELSE IsDir(r.rfs0, Resolve(RemoteHome, r.source))

MaxTasks == 3

\* number of calls made on one launcher
MaxLaunches == 2

\* "{}".format(n) for a natural number
RECURSIVE Digits(_)
Digits(n) == IF n < 10 THEN <<Str(n)>> ELSE Digits(n \div 10) \o <<Str(n % 10)>>

SimpleLauncher(command, tasks_per_node, nodes_per_block, walltime) ==
    command

SingleNodeLauncher(command, tasks_per_node, nodes_per_block, walltime) ==
    LET task_blocks == tasks_per_node * nodes_per_block
    IN <<"export CORES=$(getconf _NPROCESSORS_ONLN)", "\n",
         "echo \"Found cores : $CORES\"", "\n",
         "WORKERCOUNT=">> \o Digits(task_blocks) \o <<"\n",
         "CMD ( ) {", "\n">> \o command \o <<"\n",
         "}", "\n",
         "for COUNT in $(seq 1 1 $WORKERCOUNT)", "\n",
         "do", "\n", "CMD &", "\n", "done", "\n", "wait", "\n",
         "echo \"All workers done\"", "\n">>

\* the template with the first number given for the count of workers
GnuParallelLauncher_per_node(command, tasks_per_node, nodes_per_block, walltime) ==
    <<"export CORES=$(getconf _NPROCESSORS_ONLN)", "\n",
      "echo \"Found cores : $CORES\"", "\n",
      "WORKERCOUNT=">> \o Digits(tasks_per_node) \o <<"\n",
      "SSHLOGINFILE=\"$JOBNAME.nodes\"", "\n",
      "cat << PARALLEL_CMD_EOF > cmd_$JOBNAME.sh", "\n">> \o command \o <<"\n",
      "PARALLEL_CMD_EOF", "\n",
      "for COUNT in $(seq 1 1 $WORKERCOUNT)", "\n",
      "parallel --sshloginfile $SSHLOGINFILE --jobs ">>
      \o Digits(tasks_per_node) \o <<" < $PFILE", "\n",
      "echo \"All workers done\"", "\n">>

GnuParallelLauncher(command, tasks_per_node, nodes_per_block, walltime) ==
    LET task_blocks == tasks_per_node * nodes_per_block
    IN <<"export CORES=$(getconf _NPROCESSORS_ONLN)", "\n",
         "echo \"Found cores : $CORES\"", "\n",
         "WORKERCOUNT=">> \o Digits(task_blocks) \o <<"\n",
         "SSHLOGINFILE=\"$JOBNAME.nodes\"", "\n",
         "cat << PARALLEL_CMD_EOF > cmd_$JOBNAME.sh", "\n">> \o command \o <<"\n",
         "PARALLEL_CMD_EOF", "\n",
         "for COUNT in $(seq 1 1 $WORKERCOUNT)", "\n",
         "parallel --sshloginfile $SSHLOGINFILE --jobs ">>
         \o Digits(tasks_per_node) \o <<" < $PFILE", "\n",
         "echo \"All workers done\"", "\n">>

MpiExecLauncher(command, tasks_per_node, nodes_per_block, walltime) ==
    LET task_blocks == tasks_per_node * nodes_per_block
    IN <<"export CORES=$(getconf _NPROCESSORS_ONLN)", "\n",
         "echo \"Found cores : $CORES\"", "\n",
         "WORKERCOUNT=">> \o Digits(task_blocks) \o <<"\n",
         "HOSTFILE=\"$JOBNAME.nodes\"", "\n",
         "cat << MPIEXEC_EOF > cmd_$JOBNAME.sh", "\n">> \o command \o <<"\n",
         "MPIEXEC_EOF", "\n",
         "mpiexec --bind-to none -n $WORKERCOUNT --hostfile $HOSTFILE /usr/bin/sh cmd_$JOBNAME.sh",
         "\n", "echo \"All workers done\"", "\n">>

SrunLauncher(command, tasks_per_node, nodes_per_block, walltime) ==
    LET task_blocks == tasks_per_node * nodes_per_block
    IN <<"export CORES=$SLURM_CPUS_ON_NODE", "\n",
         "export NODES=$SLURM_JOB_NUM_NODES", "\n",
         "WORKERCOUNT=">> \o Digits(task_blocks) \o <<"\n",
         "cat << SLURM_EOF > cmd_$SLURM_JOB_NAME.sh", "\n">> \o command \o <<"\n",
         "SLURM_EOF", "\n",
         "TASKBLOCKS=">> \o Digits(task_blocks) \o <<"\n",
         "srun --ntasks $TASKBLOCKS -l bash cmd_$SLURM_JOB_NAME.sh", "\n",
         "echo \"Done\"", "\n">>

SrunMPILauncher(command, tasks_per_node, nodes_per_block, walltime) ==
    LET task_blocks == tasks_per_node * nodes_per_block
    IN <<"export CORES=$SLURM_CPUS_ON_NODE", "\n",
         "export NODES=$SLURM_JOB_NUM_NODES", "\n",
         "WORKERCOUNT=">> \o Digits(task_blocks) \o <<"\n",
         "cat << SLURM_EOF > cmd_$SLURM_JOB_NAME.sh", "\n">> \o command \o <<"\n",
         "SLURM_EOF", "\n",
         "TASKBLOCKS=">> \o Digits(task_blocks) \o <<"\n",
         "if (( \"$TASKBLOCKS\" > \"$NODES\" ))", "\n",
         "srun --ntasks $CORES_PER_BLOCK -l bash cmd_$SLURM_JOB_NAME.sh &", "\n",
         "else", "\n",
         "srun --exclusive --nodes $NODES_PER_BLOCK -l bash cmd_$SLURM_JOB_NAME.sh &",
         "\n", "fi", "\n", "echo \"Done\"", "\n">>

AprunLauncher(overrides, command, tasks_per_node, nodes_per_block, walltime) ==
    LET tasks_per_block == tasks_per_node * nodes_per_block
    IN <<"\n", "WORKERCOUNT=">> \o Digits(tasks_per_block) \o <<"\n",
         "cat << APRUN_EOF > cmd_$JOBNAME.sh", "\n">> \o command \o <<"\n",
         "APRUN_EOF", "\n",
         "aprun -n ">> \o Digits(tasks_per_block) \o <<" -N ">>
         \o Digits(tasks_per_node) \o <<" ">> \o overrides
         \o <<" /bin/bash cmd_$JOBNAME.sh &", "\n", "wait", "\n",
         "echo \"Done\"", "\n">>

LauncherKinds ==
    {"SimpleLauncher", "SingleNodeLauncher", "GnuParallelLauncher",
     "MpiExecLauncher", "SrunLauncher", "SrunMPILauncher", "AprunLauncher"}

\* launcher(command, tasks_per_node, nodes_per_block, walltime)
__call__(l, command, tasks_per_node, nodes_per_block, walltime) ==
    CASE l.kind = "SimpleLauncher" ->
           SimpleLauncher(command, tasks_per_node, nodes_per_block, walltime)
      [] l.kind = "SingleNodeLauncher" ->
           SingleNodeLauncher(command, tasks_per_node, nodes_per_block, walltime)
      [] l.kind = "GnuParallelLauncher" ->
           GnuParallelLauncher(command, tasks_per_node, nodes_per_block, walltime)
      [] l.kind = "MpiExecLauncher" ->
           MpiExecLauncher(command, tasks_per_node, nodes_per_block, walltime)
      [] l.kind = "SrunLauncher" ->
           SrunLauncher(command, tasks_per_node, nodes_per_block, walltime)
      [] l.kind = "SrunMPILauncher" ->
           SrunMPILauncher(command, tasks_per_node, nodes_per_block, walltime)
      [] OTHER ->
           AprunLauncher(l.overrides, command, tasks_per_node, nodes_per_block, walltime)

\* AprunLauncher(overrides=...): the other classes take no argument
Overrides(kind) ==
    IF kind = "AprunLauncher" THEN {<<>>, <<"-cc", " ", "depth">>} ELSE {<<>>}

Walltimes == {None, <<"60">>}

NewLauncher ==
    /\ \E kind \in LauncherKinds :
        \E overrides \in Overrides(kind) :
            launcher' = [kind |-> kind, overrides |-> overrides]
    /\ launches' = <<>>
    /\ ret' = [op |-> "Launcher"]
    /\ UNCHANGED <<provVars, chanVars, fileVars, lifeVars, threadVars>>

Launch ==
    /\ launcher.kind # "none"
    /\ Len(launches) < MaxLaunches
    /\ \E command \in Commands, tasks_per_node \in 1..MaxTasks,
          nodes_per_block \in 1..MaxTasks, walltime \in Walltimes :
        LET call == [kind |-> launcher.kind, command |-> command,
                     tasks_per_node |-> tasks_per_node,
                     nodes_per_block |-> nodes_per_block,
                     walltime |-> walltime,
                     out |-> __call__(launcher, command, tasks_per_node,
                                      nodes_per_block, walltime)]
        IN /\ launches' = Append(launches, call)
           /\ ret' = [op |-> "launch", value |-> call.out]
    /\ UNCHANGED <<provVars, chanVars, fileVars, lifeVars, launcher, threadVars>>

InitLauncher ==
    /\ Idle
    /\ NoFiles
    /\ NoChannels
    /\ NoLauncher
    /\ NoThreads

NextLauncher == NewLauncher \/ Launch

SpecLauncher == InitLauncher /\ [][NextLauncher]_vars

(***************************************************************************)
(* Properties of the launchers                                             *)
(***************************************************************************)

\* sub occurs in s as a run of consecutive tokens
Contains(s, sub) ==
    \E i \in 1..(Len(s) - Len(sub) + 1) : SubSeq(s, i, i + Len(sub) - 1) = sub

\* calls with the same command and numbers gave the same script
SameArgsSameScript ==
    \A i, j \in 1..Len(launches) :
        (/\ launches[i].command = launches[j].command
         /\ launches[i].tasks_per_node = launches[j].tasks_per_node
         /\ launches[i].nodes_per_block = launches[j].nodes_per_block)
        => launches[i].out = launches[j].out

\* C18 as stated: a launcher gives the same script for the same command,
\* tasks_per_node and nodes_per_block, and the script of every strategy
\* holds tasks_per_node * nodes_per_block
C18_ProductInEveryScript ==
    /\ SameArgsSameScript
    /\ \A i \in 1..Len(launches) :
           Contains(launches[i].out,
                    Digits(launches[i].tasks_per_node * launches[i].nodes_per_block))

\* C18: a launcher gives the same script for the same command,
\* tasks_per_node and nodes_per_block, whatever the walltime; the script of
\* every strategy but SimpleLauncher sets WORKERCOUNT to tasks_per_node *
\* nodes_per_block, and SimpleLauncher returns the command as it is
C18_WorkerCountIsProduct ==
    /\ SameArgsSameScript
    /\ \A i \in 1..Len(launches) :
           IF launches[i].kind = "SimpleLauncher"
           THEN launches[i].out = launches[i].command
           ELSE Contains(launches[i].out,
                         <<"WORKERCOUNT=">>
                         \o Digits(launches[i].tasks_per_node
                                   * launches[i].nodes_per_block)
                         \o <<"\n">>)

C18_Witness ==
    /\ Len(launches) = 2
    /\ launches[1].kind = "GnuParallelLauncher"
    /\ launches[1].tasks_per_node = 2
    /\ launches[1].nodes_per_block = 3
    /\ launches[2].tasks_per_node = 2
    /\ launches[2].nodes_per_block = 3
    /\ launches[1].walltime # launches[2].walltime
    /\ Contains(launches[2].out, <<"WORKERCOUNT=", "6", "\n">>)

(***************************************************************************)
(* The provider called from several threads                                *)
(*                                                                         *)
(* Each thread makes one call; a step is one statement of the method, and  *)
(* the statements of different threads interleave.  The methods take no    *)
(* lock.                                                                   *)
(***************************************************************************)

\* number of threads
MaxThreads == 2

ThreadOps == {"submit", "cancel", "status"}

\* a thread about to make its call
Fresh(op) ==
    [op |-> op, pc |-> "start", job_name |-> <<"t1">>, job |-> Unset,
     val |-> None, raised |-> "no"]

\* the thread's record after a step
Step(t, pc, val, raised) ==
    [threads EXCEPT ![t].pc = pc, ![t].val = val, ![t].raised = raised]

At(t, op, pc) == threads[t].op = op /\ threads[t].pc = pc

\* submit: if not self.resources
SubmitCheck ==
    \E t \in 1..Len(threads) :
        /\ At(t, "submit", "start")
        /\ threads' = Step(t, IF resources = EmptyDict THEN "name" ELSE "return",
                           None, "no")
        /\ UNCHANGED <<provVars, chanVars, ret, fileVars, lifeVars, launchVars,
                       deployment_obj>>

\* submit: job_name and self.deployment_name are formed from the time
SubmitName ==
    \E t \in 1..Len(threads), f \in Fracs :
        /\ At(t, "submit", "name")
        /\ deployment_name' =
               FormatDeploymentName(FormatJobName(threads[t].job_name, now, f),
                                    now, f)
        /\ threads' = Step(t, "object", None, "no")
        /\ UNCHANGED <<resources, backend, now, returned, cancelled, ncalls,
                       chanVars, ret, fileVars, lifeVars, launchVars,
                       deployment_obj>>

\* submit: self.deployment_obj is built with self.deployment_name
SubmitObject ==
    \E t \in 1..Len(threads) :
        /\ At(t, "submit", "object")
        /\ deployment_obj' = deployment_name
        /\ threads' = Step(t, "create", None, "no")
        /\ UNCHANGED <<provVars, chanVars, ret, fileVars, lifeVars, launchVars>>

\* submit: self._create_deployment(self.deployment_obj); the namespace
\* refuses a name it holds already
SubmitCreate ==
    \E t \in 1..Len(threads) :
        /\ At(t, "submit", "create")
        /\ IF deployment_obj \in backend
           THEN /\ threads' = Step(t, "done", None, "ApiException")
                /\ UNCHANGED backend
           ELSE /\ threads' = Step(t, "record", None, "no")
                /\ backend' = backend \cup {deployment_obj}
        /\ UNCHANGED <<resources, deployment_name, now, returned, cancelled,
                       ncalls, chanVars, ret, fileVars, lifeVars, launchVars,
                       deployment_obj>>

\* submit: self.resources[self.deployment_name] = {...}
SubmitRecord ==
    \E t \in 1..Len(threads) :
        /\ At(t, "submit", "record")
        /\ resources' = DictSet(resources, deployment_name,
                                [status |-> "RUNNING", pods |-> init_blocks])
        /\ threads' = Step(t, "return", None, "no")
        /\ UNCHANGED <<deployment_name, backend, now, returned, cancelled,
                       ncalls, chanVars, ret, fileVars, lifeVars, launchVars,
                       deployment_obj>>

\* submit: return self.deployment_name
SubmitReturn ==
    \E t \in 1..Len(threads) :
        /\ At(t, "submit", "return")
        /\ threads' = Step(t, "done", deployment_name, "no")
        /\ returned' = Append(returned, deployment_name)
        /\ UNCHANGED <<resources, deployment_name, backend, now, cancelled,
                       ncalls, chanVars, ret, fileVars, lifeVars, launchVars,
                       deployment_obj>>

\* cancel([job]): self._delete_deployment(job)
CancelDelete ==
    \E t \in 1..Len(threads), job \in KnownIds, out \in DeleteOutcomes :
        /\ At(t, "cancel", "start")
        /\ out = "deleted" => job \in backend
        /\ backend' = IF out = "deleted" THEN backend \ {job} ELSE backend
        /\ threads' = [IF out = "raise"
                       THEN Step(t, "done", None, "ApiException")
                       ELSE Step(t, "mark", None, "no") EXCEPT ![t].job = job]
        /\ UNCHANGED <<resources, deployment_name, now, returned, cancelled,
                       ncalls, chanVars, ret, fileVars, lifeVars, launchVars,
                       deployment_obj>>

\* cancel([job]): self.resources[job]['status'] = 'CANCELLED', then the
\* list of True is returned
CancelMark ==
    \E t \in 1..Len(threads) :
        /\ At(t, "cancel", "mark")
        /\ IF threads[t].job \in DOMAIN resources
           THEN /\ resources' = [resources EXCEPT ![threads[t].job].status = "CANCELLED"]
                /\ threads' = Step(t, "done", <<TRUE>>, "no")
           ELSE /\ threads' = Step(t, "done", None, "KeyError")
                /\ UNCHANGED resources
        /\ UNCHANGED <<deployment_name, backend, now, returned, cancelled,
                       ncalls, chanVars, ret, fileVars, lifeVars, launchVars,
                       deployment_obj>>

\* status([job])
StatusCall ==
    \E t \in 1..Len(threads), job \in KnownIds :
        /\ At(t, "status", "start")
        /\ threads' = [Step(t, "done", status(Provider, <<job>>).val, "no")
                          EXCEPT ![t].job = job]
        /\ UNCHANGED <<provVars, chanVars, ret, fileVars, lifeVars, launchVars,
                       deployment_obj>>

InitThreads ==
    /\ Idle
    /\ NoFiles
    /\ NoChannels
    /\ NoLauncher
    /\ threads \in [1..MaxThreads -> {Fresh(op) : op \in ThreadOps}]
    /\ deployment_obj = Unset

NextThreads ==
    \/ Tick
    \/ SubmitCheck
    \/ SubmitName
    \/ SubmitObject
    \/ SubmitCreate
    \/ SubmitRecord
    \/ SubmitReturn
    \/ CancelDelete
    \/ CancelMark
    \/ StatusCall

SpecThreads == InitThreads /\ [][NextThreads]_vars

(***************************************************************************)
(* Properties of the provider under threads                                *)
(***************************************************************************)

\* C19: submit calls made by several threads on an empty provider, once all
\* have returned, have created one deployment and one record, as the same
\* calls made one after the other do; none has raised and all return the
\* recorded name
C19_ConcurrentSubmitsCreateOne ==
    (\A t \in 1..Len(threads) : At(t, "submit", "done"))
    => /\ Cardinality(backend) = 1
       /\ Cardinality(DOMAIN resources) = 1
       /\ \A t \in 1..Len(threads) :
              /\ threads[t].raised = "no"
              /\ threads[t].val \in DOMAIN resources

-----------------------------------------------------------------------------
(* SSHChannel: the envs mappings across calls and channels *)

\* SSHChannel.__init__ keeps the overrides it is given, {} when envs is
\* left out
SSHChannel_envs(envs) == IF envs = Omitted THEN EmptyDict ELSE envs

\* the overrides the channels are constructed with
ChannelEnvs == {Omitted, EmptyDict, [n \in {"A"} |-> "1"]}

\* the envs of the execute_no_wait calls: left out, an empty dict, a dict
\* with one name
NoWaitEnvs == {Omitted, EmptyDict, [n \in {"B"} |-> "2"]}

\* one more SSHChannel is constructed and becomes the channel the next calls
\* go through; the default objects belong to the methods, not to a channel
AnotherSSHChannel ==
    \E e \in ChannelEnvs, conn \in {"connected"} :
        LET r == SSHChannel_init(None, conn)
        IN  /\ ssh_envs' = SSHChannel_envs(e)
            /\ ssh_chan' = r.chan
            /\ ret' = [op |-> "__init__", chan |-> "ssh", raised |-> r.raised,
                       envs |-> e]
            /\ UNCHANGED <<provVars, local_envs, local__envs, ssh_wait_default,
                           ssh_nowait_default, fileVars, local_chan, procs,
                           restVars>>

\* execute_no_wait(cmd) and execute_no_wait(cmd, envs=d): a call that passes
\* envs changes the caller's dict; one that omits it changes the default
\* object
SSHExecuteNoWaitEnvs ==
    /\ ssh_chan.state # "none"
    /\ Len(procs) < MaxProcs
    /\ \E cmd \in Commands, arg \in NoWaitEnvs, launch \in Launches :
        LET given == arg # Omitted
            envs == IF given THEN arg ELSE ssh_nowait_default
            r == SSHChannel_execute_no_wait(ssh_chan, ssh_envs, procs, <<cmd>>,
                                            envs, launch)
        IN /\ procs' = r.procs
           /\ ssh_nowait_default' = IF given THEN ssh_nowait_default ELSE r.envs
           /\ ret' = [op |-> "execute_no_wait", chan |-> "ssh", cmd |-> cmd,
                      envs |-> envs, chan_envs |-> ssh_envs, given |-> given,
                      cmdline |-> r.cmdline, envs_after |-> r.envs,
                      launch |-> launch, raised |-> r.raised, value |-> r.value]
    /\ UNCHANGED <<provVars, local_envs, local__envs, ssh_envs, ssh_wait_default,
                   restVars, fileVars, local_chan, ssh_chan>>

\* the provider untouched and one SSHChannel constructed and connected
InitEnvs ==
    /\ resources = EmptyDict
    /\ deployment_name = Unset
    /\ backend = {}
    /\ now = 0
    /\ returned = <<>>
    /\ cancelled = {}
    /\ ncalls = 0
    /\ ret = NoCall
    /\ local_envs = EmptyDict
    /\ local__envs = LocalChannelEnvs(os_environ, EmptyDict)
    /\ \E e \in ChannelEnvs : ssh_envs = SSHChannel_envs(e)
    /\ ssh_wait_default = EmptyDict
    /\ ssh_nowait_default = EmptyDict
    /\ NoFiles
    /\ local_chan = [state |-> "none"]
    /\ ssh_chan = SSHChannel_init(None, "connected").chan
    /\ procs = <<>>
    /\ NoLauncher
    /\ NoThreads

NextEnvs == SSHExecuteWait \/ SSHExecuteNoWaitEnvs \/ AnotherSSHChannel

SpecEnvs == InitEnvs /\ [][NextEnvs]_vars

\* C21: a command executed through SSHChannel leaves the dict the caller
\* passed as envs and the default envs objects of execute_wait and
\* execute_no_wait as they were, and a call with no overrides of its own on
\* a channel with no overrides hands the command over with no env prefix.
C21_EnvMappingsUntouched ==
    /\ ssh_wait_default = EmptyDict
    /\ ssh_nowait_default = EmptyDict
    /\ (ret.op \in {"execute_wait", "execute_no_wait"} /\ ret.chan = "ssh") =>
          /\ ret.envs_after = ret.envs
          /\ (~ret.given /\ ret.chan_envs = EmptyDict) => ret.cmdline = ret.cmd

====
